---- MODULE Spec2Model ----
(***************************************************************************)
(* Document Extractor API (src/main.py): the /extract and                  *)
(* /transform-to-json handlers, the two extractors and the content hasher, *)
(* as a state machine that serves one request at a time.                   *)
(*                                                                         *)
(* A text (a Python str) is a sequence of characters.  A character is a    *)
(* one-character string; the grave accent, which a TLA+ string cannot      *)
(* hold, is the value Tick.  Bytes are sequences of numbers 0..255.        *)
(***************************************************************************)
EXTENDS Integers, Sequences, FiniteSets, TLC

VARIABLES pc, req, loc, steps, resp, kept

vars == <<pc, req, loc, steps, resp, kept>>

(***************************************************************************)
(* Bounds of the model.                                                    *)
(***************************************************************************)
\* pages of a PDF, slides of a deck, shapes of a slide
MaxUnits == 2
\* pieces a generated 'text' value is concatenated from
MaxPieces == 3

(***************************************************************************)
(* Characters and str methods.                                             *)
(***************************************************************************)
Tick == "TICK"

\* str.strip() and the regular expression class \s: the white space of the
\* alphabet used here (Python's further white space characters do not occur)
WhiteSpace == {" ", "\n", "\t", "\r", "\f"}

IsSpace(c) == c \in WhiteSpace

UpperCase == <<"A","B","C","D","E","F","G","H","I","J","K","L","M",
               "N","O","P","Q","R","S","T","U","V","W","X","Y","Z">>
LowerCase == <<"a","b","c","d","e","f","g","h","i","j","k","l","m",
               "n","o","p","q","r","s","t","u","v","w","x","y","z">>

\* str.lower() on one character
LowerChar(c) ==
    IF \E k \in 1..26 : UpperCase[k] = c
    THEN LowerCase[CHOOSE k \in 1..26 : UpperCase[k] = c]
    ELSE c

\* str.lower()
Lower(s) == [k \in 1..Len(s) |-> LowerChar(s[k])]

\* s[i:j] of Python with 1-based inclusive bounds; empty when i > j
Slice(s, i, j) == IF i > j THEN <<>> ELSE SubSeq(s, i, j)

\* str.strip(): the text without its leading and trailing white space
Strip(s) ==
    LET NonWs == {k \in 1..Len(s) : ~IsSpace(s[k])}
    IN  IF NonWs = {} THEN <<>>
        ELSE LET a == CHOOSE k \in NonWs : \A m \in NonWs : k <= m
                 b == CHOOSE k \in NonWs : \A m \in NonWs : k >= m
             IN  SubSeq(s, a, b)

\* str.split(sep)[-1] for a one-character sep: what follows the last sep, the
\* whole text when there is none
LastField(s, sep) ==
    LET At == {k \in 1..Len(s) : s[k] = sep}
    IN  IF At = {} THEN s
        ELSE Slice(s, (CHOOSE k \in At : \A m \in At : k >= m) + 1, Len(s))

DigitChars == <<"0","1","2","3","4","5","6","7","8","9">>

\* str(n) of a natural number (the f-string conversion of an int)
RECURSIVE IntToStr(_)
IntToStr(n) ==
    IF n < 10 THEN <<DigitChars[n + 1]>>
    ELSE Append(IntToStr(n \div 10), DigitChars[(n % 10) + 1])

\* s[i:i+len(lit)] == lit
MatchAt(s, i, lit) ==
    /\ i >= 1
    /\ i + Len(lit) - 1 <= Len(s)
    /\ \A k \in 1..Len(lit) : s[i + k - 1] = lit[k]

\* the same, ignoring case (re.IGNORECASE on a literal)
MatchAtNoCase(s, i, lit) ==
    /\ i >= 1
    /\ i + Len(lit) - 1 <= Len(s)
    /\ \A k \in 1..Len(lit) : LowerChar(s[i + k - 1]) = LowerChar(lit[k])

\* concatenation of a sequence of texts
RECURSIVE Concat(_)
Concat(ss) == IF ss = <<>> THEN <<>> ELSE Head(ss) \o Concat(Tail(ss))

(***************************************************************************)
(* json.loads.  A JSON value is a record tagged by its Python type:        *)
(*   [t |-> "dict", pairs], [t |-> "list", items], [t |-> "str", chars],   *)
(*   [t |-> "int", n], [t |-> "bool", b], [t |-> "NoneType"].              *)
(* A parse step yields [ok |-> TRUE, val, end] (end: the next index) or    *)
(* NoParse, which stands for json.JSONDecodeError.  The texts parsed here  *)
(* hold no fraction, exponent, NaN, Infinity or \u escape.                 *)
(***************************************************************************)
NoParse == [ok |-> FALSE]

JNull == [t |-> "NoneType"]
JBool(b) == [t |-> "bool", b |-> b]
JInt(n) == [t |-> "int", n |-> n]
JStr(s) == [t |-> "str", chars |-> s]
JList(items) == [t |-> "list", items |-> items]
JDict(pairs) == [t |-> "dict", pairs |-> pairs]

\* json.decoder.WHITESPACE
JsonWs == {" ", "\t", "\n", "\r"}

RECURSIVE SkipWs(_, _)
SkipWs(s, i) ==
    IF i <= Len(s) /\ s[i] \in JsonWs THEN SkipWs(s, i + 1) ELSE i

\* json.decoder.BACKSLASH: the character an escape stands for
Unescape(c) ==
    CASE c = "\"" -> "\""
      [] c = "\\" -> "\\"
      [] c = "/" -> "/"
      [] c = "n" -> "\n"
      [] c = "r" -> "\r"
      [] c = "t" -> "\t"
      [] c = "f" -> "\f"
      [] c = "b" -> "BACKSPACE"

EscapeChars == {"\"", "\\", "/", "n", "r", "t", "f", "b"}

\* characters below 0x20, which a strict string may not hold unescaped
ControlChars == {"\n", "\t", "\r", "\f", "BACKSPACE"}

\* json.decoder.STRINGCHUNK: the index of the first character from j on that
\* ends a run of plain characters (a quote, a backslash, a control character),
\* Len(s) + 1 when there is none
ChunkEnd(s, j) ==
    LET Stops == {k \in j..Len(s) :
                     s[k] = "\"" \/ s[k] = "\\" \/ s[k] \in ControlChars}
    IN  IF Stops = {} THEN Len(s) + 1
        ELSE CHOOSE k \in Stops : \A m \in Stops : k <= m

\* json.decoder.py_scanstring from the character after the opening quote: a
\* run of plain characters and its terminator at a time
RECURSIVE ScanString(_, _, _)
ScanString(s, j, acc) ==
    LET k == ChunkEnd(s, j)
        chunk == acc \o Slice(s, j, k - 1)
    IN  IF k > Len(s) THEN NoParse
        ELSE IF s[k] = "\"" THEN [ok |-> TRUE, val |-> chunk, end |-> k + 1]
        ELSE IF s[k] # "\\" THEN NoParse
        ELSE IF k + 1 <= Len(s) /\ s[k + 1] \in EscapeChars
             THEN ScanString(s, k + 2, Append(chunk, Unescape(s[k + 1])))
        ELSE NoParse

DigitValue(c) == (CHOOSE k \in 1..10 : DigitChars[k] = c) - 1

IsDigit(c) == \E k \in 1..10 : DigitChars[k] = c

\* the digits from j on: [n, end]
RECURSIVE ScanDigits(_, _, _)
ScanDigits(s, j, acc) ==
    IF j <= Len(s) /\ IsDigit(s[j])
    THEN ScanDigits(s, j + 1, 10 * acc + DigitValue(s[j]))
    ELSE [n |-> acc, end |-> j]

\* json.scanner.NUMBER_RE, integer part: -?(?:0|[1-9]\d*)
ScanNumber(s, i) ==
    LET neg == i <= Len(s) /\ s[i] = "-"
        j == IF neg THEN i + 1 ELSE i
    IN  IF j > Len(s) \/ ~IsDigit(s[j]) THEN NoParse
        ELSE IF s[j] = "0"
             THEN [ok |-> TRUE, val |-> JInt(0), end |-> j + 1]
        ELSE LET d == ScanDigits(s, j, 0)
             IN  [ok |-> TRUE, val |-> JInt(IF neg THEN 0 - d.n ELSE d.n),
                  end |-> d.end]

\* dict[key] = value: a repeated key keeps its place and takes the new value
DictSet(pairs, key, value) ==
    IF \E k \in 1..Len(pairs) : pairs[k][1] = key
    THEN [k \in 1..Len(pairs) |->
            IF pairs[k][1] = key THEN <<key, value>> ELSE pairs[k]]
    ELSE Append(pairs, <<key, value>>)

\* key in d
DictHas(d, key) == \E k \in 1..Len(d.pairs) : d.pairs[k][1] = key

\* d[key]
DictGet(d, key) ==
    d.pairs[CHOOSE k \in 1..Len(d.pairs) : d.pairs[k][1] = key][2]

RECURSIVE ScanOnce(_, _)
RECURSIVE ScanArray(_, _, _)
RECURSIVE ScanObject(_, _, _)

\* json.scanner.py_make_scanner._scan_once
ScanOnce(s, i) ==
    IF i > Len(s) THEN NoParse
    ELSE IF s[i] = "\"" THEN
        LET r == ScanString(s, i + 1, <<>>)
        IN  IF r.ok THEN [ok |-> TRUE, val |-> JStr(r.val), end |-> r.end]
            ELSE NoParse
    ELSE IF s[i] = "{" THEN
        \* json.decoder.JSONObject, up to the first key
        LET j == SkipWs(s, i + 1)
        IN  IF j > Len(s) THEN NoParse
            ELSE IF s[j] = "}"
                 THEN [ok |-> TRUE, val |-> JDict(<<>>), end |-> j + 1]
            ELSE IF s[j] # "\"" THEN NoParse
            ELSE ScanObject(s, j, <<>>)
    ELSE IF s[i] = "[" THEN
        \* json.decoder.JSONArray, up to the first value
        LET j == SkipWs(s, i + 1)
        IN  IF j <= Len(s) /\ s[j] = "]"
            THEN [ok |-> TRUE, val |-> JList(<<>>), end |-> j + 1]
            ELSE ScanArray(s, j, <<>>)
    ELSE IF MatchAt(s, i, <<"n","u","l","l">>)
         THEN [ok |-> TRUE, val |-> JNull, end |-> i + 4]
    ELSE IF MatchAt(s, i, <<"t","r","u","e">>)
         THEN [ok |-> TRUE, val |-> JBool(TRUE), end |-> i + 4]
    ELSE IF MatchAt(s, i, <<"f","a","l","s","e">>)
         THEN [ok |-> TRUE, val |-> JBool(FALSE), end |-> i + 5]
    ELSE ScanNumber(s, i)

\* json.decoder.JSONArray: the values from index j on, acc those before
ScanArray(s, j, acc) ==
    LET r == ScanOnce(s, j)
    IN  IF ~r.ok THEN NoParse
        ELSE LET k == SkipWs(s, r.end)
                 items == Append(acc, r.val)
             IN  IF k > Len(s) THEN NoParse
                 ELSE IF s[k] = "]"
                      THEN [ok |-> TRUE, val |-> JList(items), end |-> k + 1]
                 ELSE IF s[k] = ","
                      THEN ScanArray(s, SkipWs(s, k + 1), items)
                 ELSE NoParse

\* json.decoder.JSONObject: the pairs from the key's opening quote at j on
ScanObject(s, j, acc) ==
    LET key == ScanString(s, j + 1, <<>>)
    IN  IF ~key.ok THEN NoParse
        ELSE LET c == SkipWs(s, key.end)
             IN  IF c > Len(s) \/ s[c] # ":" THEN NoParse
                 ELSE LET r == ScanOnce(s, SkipWs(s, c + 1))
                      IN  IF ~r.ok THEN NoParse
                          ELSE LET k == SkipWs(s, r.end)
                                   pairs == DictSet(acc, key.val, r.val)
                               IN  IF k > Len(s) THEN NoParse
                                   ELSE IF s[k] = "}"
                                        THEN [ok |-> TRUE, val |-> JDict(pairs),
                                              end |-> k + 1]
                                   ELSE IF s[k] = ","
                                        THEN LET n == SkipWs(s, k + 1)
                                             IN  IF n <= Len(s) /\ s[n] = "\""
                                                 THEN ScanObject(s, n, pairs)
                                                 ELSE NoParse
                                   ELSE NoParse

\* json.loads(s): one value, white space around it, nothing else
JsonLoads(s) ==
    LET r == ScanOnce(s, SkipWs(s, 1))
    IN  IF ~r.ok THEN NoParse
        ELSE IF SkipWs(s, r.end) # Len(s) + 1 THEN NoParse
        ELSE [ok |-> TRUE, val |-> r.val]

(***************************************************************************)
(* re.search(r"```json\s*(.*?)\s*```", text, re.DOTALL | re.IGNORECASE)    *)
(***************************************************************************)
Fence == <<Tick, Tick, Tick>>

FenceOpen == <<Tick, Tick, Tick, "j", "s", "o", "n">>

\* \s* taken greedily from index i: the index of the first character that is
\* no white space
RECURSIVE SkipSpace(_, _)
SkipSpace(s, i) ==
    IF i <= Len(s) /\ IsSpace(s[i]) THEN SkipSpace(s, i + 1) ELSE i

\* the tail \s*``` of the pattern matches at index p
ClosesAt(s, p) ==
    \E w \in p..SkipSpace(s, p) : MatchAt(s, w, Fence)

\* (.*?) from index q: the least end p >= q at which the tail matches
\* (0 when there is none); the group is s[q..p-1]
LazyEnd(s, q) ==
    LET Ends == {p \in q..(Len(s) + 1) : ClosesAt(s, p)}
    IN  IF Ends = {} THEN 0
        ELSE CHOOSE p \in Ends : \A m \in Ends : p <= m

\* the pattern anchored at index st: the opening marker in any case, then \s*
\* greedy (giving white space back only when the rest cannot match), then the
\* lazy group and the tail
MatchFrom(s, st) ==
    IF ~MatchAtNoCase(s, st, FenceOpen) THEN [found |-> FALSE]
    ELSE LET a == st + Len(FenceOpen)
             Starts == {q \in a..SkipSpace(s, a) : LazyEnd(s, q) # 0}
         IN  IF Starts = {} THEN [found |-> FALSE]
             ELSE LET q == CHOOSE x \in Starts : \A m \in Starts : x >= m
                  IN  [found |-> TRUE, group1 |-> Slice(s, q, LazyEnd(s, q) - 1)]

\* the match at the rightmost index that has one
SearchFenceLast(s) ==
    LET Hits == {st \in 1..Len(s) : MatchFrom(s, st).found}
    IN  IF Hits = {} THEN [found |-> FALSE]
        ELSE MatchFrom(s, CHOOSE st \in Hits : \A m \in Hits : st >= m)

\* re.search: the match at the leftmost index that has one
SearchFence(s) ==
    LET Hits == {st \in 1..Len(s) : MatchFrom(s, st).found}
    IN  IF Hits = {} THEN [found |-> FALSE]
        ELSE MatchFrom(s, CHOOSE st \in Hits : \A m \in Hits : st <= m)

(***************************************************************************)
(* Responses.  An error response carries the HTTP status and the category  *)
(* its detail text names; a success carries the body.                      *)
(***************************************************************************)
NoResponse == [status |-> 0]

\* raise HTTPException(status_code=..., detail=...)
HTTPException(status, category) == [status |-> status, category |-> category]

\* response_model=Dict[str, Any] of the /transform-to-json route: the value
\* the handler returns is validated as a dict before it is sent; any other
\* value fails the validation and the client gets a server error
TransformResponse(returned) ==
    IF returned.t = "dict"
    THEN [status |-> 200, body |-> returned]
    ELSE [status |-> 500, category |-> "response_validation"]

(***************************************************************************)
(* The raw_text values the model sends to /transform-to-json.              *)
(***************************************************************************)
\* json.dumps of a text without its quotes: the producer's encoding of the
\* 'text' value inside raw_text
EscapeChar(c) ==
    CASE c = "\"" -> <<"\\", "\"">>
      [] c = "\\" -> <<"\\", "\\">>
      [] c = "\n" -> <<"\\", "n">>
      [] OTHER -> <<c>>

RECURSIVE EscapeSlice(_, _, _)
\* the encoding of s[i..j], by halves
EscapeSlice(s, i, j) ==
    IF i > j THEN <<>>
    ELSE IF i = j THEN EscapeChar(s[i])
    ELSE LET m == (i + j) \div 2
         IN  EscapeSlice(s, i, m) \o EscapeSlice(s, m + 1, j)

Escape(s) == EscapeSlice(s, 1, Len(s))

ObjText == <<"{", "\"", "a", "\"", ":", "1", "}">>

\* the pieces a 'text' value is made of: fenced blocks around each JSON type
\* and around broken JSON, in several spellings, and bare markers and prose
Pieces ==
    { FenceOpen \o <<"\n">> \o ObjText \o <<"\n">> \o Fence,
      <<Tick, Tick, Tick, "J", "S", "O", "N", " ", "[", "1", "]", " ">> \o Fence,
      FenceOpen \o <<"\"", "s", "\"">> \o Fence,
      FenceOpen \o <<" ", "5">> \o Fence,
      <<Tick, Tick, Tick, "J", "s", "o", "n", "\n", "t", "r", "u", "e">> \o Fence,
      FenceOpen \o <<" ", "n", "u", "l", "l", " ", "\n">> \o Fence,
      FenceOpen \o <<"\n", "{", "a", "\n">> \o Fence,
      FenceOpen,
      Fence,
      <<"x", " ">> }

RECURSIVE TextsOf(_)
\* the concatenations of exactly n pieces
TextsOf(n) ==
    IF n = 0 THEN {<<>>}
    ELSE {t \o p : t \in TextsOf(n - 1), p \in Pieces}

InnerTexts == UNION {TextsOf(n) : n \in 0..MaxPieces}

TextKey == <<"\"", "t", "e", "x", "t", "\"", ":">>

\* [{"text": "<t>"}]
WrapList(t) ==
    <<"[", "{">> \o TextKey \o <<" ", "\"">> \o Escape(t) \o <<"\"", "}", "]">>

\* [{"text": <v>}] for JSON source v
WrapValue(v) == <<"[", "{">> \o TextKey \o v \o <<"}", "]">>

\* raw_text values of other shapes: no JSON, no list, an empty list, a first
\* item that is no object or has no 'text', a 'text' that is no string, and a
\* fenced block that is not in the first item's 'text'
OtherRawTexts ==
    LET block == <<"\"">> \o Escape(FenceOpen \o ObjText \o Fence) \o <<"\"">>
    IN  { <<>>,
          <<"[", "{">> \o TextKey,
          <<"{">> \o TextKey \o block \o <<"}">>,
          block,
          <<"[", "]">>,
          <<" ", "[", " ", "]", "\n">>,
          <<"[", "5", "]">>,
          <<"[", "[", "]", "]">>,
          <<"[">> \o block \o <<"]">>,
          <<"[", "{", "}", "]">>,
          <<"[", "{", "\"", "k", "\"", ":">> \o block \o <<"}", "]">>,
          WrapValue(<<"5">>),
          WrapValue(<<"n", "u", "l", "l">>),
          WrapValue(<<"t", "r", "u", "e">>),
          WrapValue(<<"[">> \o block \o <<"]">>),
          WrapValue(<<"{", "\"", "k", "\"", ":">> \o block \o <<"}">>),
          WrapValue(<<"\"", "x", "\"">>) \o <<" ">>,
          <<"[", "{">> \o TextKey \o <<"\"", "x", "\"", "}", ",", "{">>
              \o TextKey \o block \o <<"}", "]">>,
          <<"[", "{">> \o TextKey \o <<"5", ",">> \o TextKey \o block
              \o <<"}", ",", "7", "]">> }

RawTexts == {WrapList(t) : t \in InnerTexts} \cup OtherRawTexts

(***************************************************************************)
(* POST /transform-to-json: transform_text_to_json, one action per         *)
(* statement that can raise.  A raised exception reaches the except clause *)
(* in the same step.                                                       *)
(***************************************************************************)
Unset == [t |-> "unset"]

TransformLocals ==
    [data_list |-> Unset, first_item |-> Unset, text_with_markdown |-> Unset,
     json_string |-> Unset, final_json_data |-> Unset]

\* the request arrives; pydantic has checked that raw_text is a str
ReceiveTransform(pool) ==
    /\ pc = "idle"
    /\ \E raw \in pool : req' = [kind |-> "transform", raw_text |-> raw]
    /\ loc' = TransformLocals
    /\ steps' = <<>>
    /\ resp' = NoResponse
    /\ pc' = "tr_loads"
    /\ UNCHANGED kept

\* the handler ends with raise HTTPException(...) at the given step
RaiseHTTP(step, status, category) ==
    /\ resp' = HTTPException(status, category)
    /\ steps' = Append(steps, step)
    /\ pc' = "done"
    /\ UNCHANGED <<req, kept>>

\* except clauses in which every other exception is a client error as well
ExceptClauseAllClient(exc) ==
    CASE exc = "JSONDecodeError" -> HTTPException(400, "decode")
      [] OTHER -> HTTPException(400, "structure")

\* the except clauses of transform_text_to_json, tried in order:
\* json.JSONDecodeError, then ValueError, then Exception
ExceptClause(exc) ==
    CASE exc = "JSONDecodeError" -> HTTPException(400, "decode")
      [] exc = "ValueError" -> HTTPException(400, "structure")
      [] OTHER -> HTTPException(500, "unexpected")

\* an exception of the given type is raised inside the try block
Raise(step, exc) ==
    /\ resp' = ExceptClause(exc)
    /\ steps' = Append(steps, step)
    /\ pc' = "done"
    /\ UNCHANGED <<req, kept>>

\* data_list = json.loads(payload.raw_text)
TrLoads ==
    /\ pc = "tr_loads"
    /\ LET r == JsonLoads(req.raw_text)
       IN  IF r.ok
           THEN /\ loc' = [loc EXCEPT !.data_list = r.val]
                /\ steps' = Append(steps, "loads")
                /\ pc' = "tr_list"
                /\ UNCHANGED <<req, resp, kept>>
           ELSE Raise("loads", "JSONDecodeError") /\ UNCHANGED loc

\* if not isinstance(data_list, list) or len(data_list) == 0: raise ValueError
TrCheckList ==
    /\ pc = "tr_list"
    /\ IF loc.data_list.t # "list" \/ Len(loc.data_list.items) = 0
       THEN Raise("check_list", "ValueError") /\ UNCHANGED loc
       ELSE /\ loc' = [loc EXCEPT !.first_item = loc.data_list.items[1]]
            /\ steps' = Append(steps, "check_list")
            /\ pc' = "tr_first"
            /\ UNCHANGED <<req, resp, kept>>

\* if not isinstance(first_item, dict) or "text" not in first_item: raise
\* ValueError; text_with_markdown = first_item["text"]
TrCheckFirst ==
    /\ pc = "tr_first"
    /\ IF loc.first_item.t # "dict"
          \/ ~DictHas(loc.first_item, <<"t", "e", "x", "t">>)
       THEN Raise("check_first", "ValueError") /\ UNCHANGED loc
       ELSE /\ loc' = [loc EXCEPT !.text_with_markdown =
                           DictGet(loc.first_item, <<"t", "e", "x", "t">>)]
            /\ steps' = Append(steps, "check_first")
            /\ pc' = "tr_search"
            /\ UNCHANGED <<req, resp, kept>>

\* match = re.search(...): a TypeError when the value is no str, which
\* 'except Exception' turns into the 500; no match raises ValueError
TrSearch ==
    /\ pc = "tr_search"
    /\ IF loc.text_with_markdown.t # "str"
       THEN Raise("search", "TypeError") /\ UNCHANGED loc
       ELSE LET m == SearchFence(loc.text_with_markdown.chars)
            IN  IF m.found
                THEN /\ loc' = [loc EXCEPT !.json_string = JStr(m.group1)]
                     /\ steps' = Append(steps, "search")
                     /\ pc' = "tr_inner"
                     /\ UNCHANGED <<req, resp, kept>>
                ELSE Raise("search", "ValueError") /\ UNCHANGED loc

\* final_json_data = json.loads(json_string)
TrLoadsInner ==
    /\ pc = "tr_inner"
    /\ LET r == JsonLoads(loc.json_string.chars)
       IN  IF r.ok
           THEN /\ loc' = [loc EXCEPT !.final_json_data = r.val]
                /\ steps' = Append(steps, "loads_inner")
                /\ pc' = "tr_return"
                /\ UNCHANGED <<req, resp, kept>>
           ELSE Raise("loads_inner", "JSONDecodeError") /\ UNCHANGED loc

\* return final_json_data, and the route's response for it
TrReturn ==
    /\ pc = "tr_return"
    /\ resp' = TransformResponse(loc.final_json_data)
    /\ steps' = Append(steps, "return")
    /\ pc' = "done"
    /\ UNCHANGED <<req, loc, kept>>

\* the response is sent; nothing of the request outlives it
Finish ==
    /\ pc = "done"
    /\ pc' = "idle"
    /\ req' = [kind |-> "none"]
    /\ loc' = [x |-> 0]
    /\ steps' = <<>>
    /\ resp' = NoResponse
    /\ UNCHANGED kept

(***************************************************************************)
(* The uploads the model sends to /extract.  A sample file is the bytes    *)
(* <<format, properties, u1, ..., un>>: the table below says what          *)
(* PyPDF2.PdfReader and pptx.Presentation read from each sample.           *)
(***************************************************************************)
Hello == <<"H", "e", "l", "l", "o">>

World == <<"W", "o", "r", "l", "d">>

\* page.extract_text() of the page kinds: text, no text, text that ends in
\* white space
PageTexts == <<Hello, World, <<>>, <<"a", " ", "\n">>>>

Picture == [has_text |-> FALSE, text |-> <<>>]

TextBox(t) == [has_text |-> TRUE, text |-> t]

\* slide.shapes of the slide kinds: no shape, shapes without text, a shape
\* with an empty text frame, shapes with text
SlideShapes ==
    << <<>>,
       <<Picture>>,
       <<Picture, TextBox(<<>>)>>,
       <<TextBox(<<"H", "i">>), Picture, TextBox(<<"B", "\n", "C">>)>> >>

RECURSIVE UnitSeqs(_)
\* the sequences of exactly n page or slide kinds
UnitSeqs(n) ==
    IF n = 0 THEN {<<>>}
    ELSE {Append(u, k) : u \in UnitSeqs(n - 1), k \in 1..4}

\* sample uploads: the empty file, a file too short to parse, and files of
\* each format (37: PDF, 80: deck, 63: valid as both, 0: neither) with each
\* kind of document properties
Contents ==
    {<<>>, <<37>>}
    \cup {<<f, i>> \o u : f \in {37, 80, 63, 0}, i \in 0..3,
                          u \in UNION {UnitSeqs(n) : n \in 0..MaxUnits}}

\* the document information dictionary of a sample PDF: none, an empty one,
\* one with some text entries, one whose entries are numbers
PdfInfo(i) ==
    CASE i = 0 -> JNull
      [] i = 1 -> JDict(<<>>)
      [] i = 2 -> JDict(<< <<"/Title", JStr(<<"T">>)>>,
                           <<"/Author", JStr(<<"A">>)>>,
                           <<"/CreationDate", JStr(<<"D", ":", "2", "0">>)>> >>)
      [] i = 3 -> JDict(<< <<"/Title", JInt(42)>>,
                           <<"/ModDate", JInt(7)>> >>)

\* PyPDF2.PdfReader(io.BytesIO(file_content)): the pages' texts and the
\* metadata, or no parse (the reader raises)
PdfReader(b) ==
    IF Len(b) >= 2 /\ b[1] \in {37, 63}
    THEN [ok |-> TRUE,
          pages |-> [k \in 1..(Len(b) - 2) |-> PageTexts[b[k + 2]]],
          metadata |-> PdfInfo(b[2])]
    ELSE NoParse

Datetime(iso) == [t |-> "datetime", iso |-> iso]

\* presentation.core_properties of a sample deck: string properties are ''
\* when unset, created and modified are None when unset
CoreProps(i) ==
    LET none == [title |-> JStr(<<>>), author |-> JStr(<<>>),
                 subject |-> JStr(<<>>), keywords |-> JStr(<<>>),
                 comments |-> JStr(<<>>), category |-> JStr(<<>>),
                 created |-> JNull, modified |-> JNull,
                 last_modified_by |-> JStr(<<>>)]
    IN  CASE i = 0 -> none
          [] i = 1 -> [none EXCEPT !.title = JStr(<<"T">>),
                                   !.created = Datetime(<<"2", "0", "2", "0">>)]
          [] i = 2 -> [none EXCEPT !.author = JStr(<<"A">>),
                                   !.keywords = JStr(<<"k">>),
                                   !.modified = Datetime(<<"2", "0", "2", "1">>),
                                   !.last_modified_by = JStr(<<"B">>)]
          [] i = 3 -> [none EXCEPT !.subject = JStr(<<"S">>),
                                   !.comments = JStr(<<"c">>),
                                   !.category = JStr(<<"g">>),
                                   !.created = Datetime(<<"2", "0", "2", "0">>),
                                   !.modified = Datetime(<<"2", "0", "2", "1">>)]

\* pptx.Presentation(io.BytesIO(file_content)), or no parse
Presentation(b) ==
    IF Len(b) >= 2 /\ b[1] \in {80, 63}
    THEN [ok |-> TRUE,
          slides |-> [k \in 1..(Len(b) - 2) |-> SlideShapes[b[k + 2]]],
          slide_width |-> 9144000,
          slide_height |-> IF b[2] = 0 THEN 6858000 ELSE 5143500,
          core_properties |-> CoreProps(b[2])]
    ELSE NoParse

\* file names: each extension in both cases, names without a dot, with
\* several dots, with nothing after the dot, other extensions, the empty name
Filenames ==
    { <<"a", ".", "p", "d", "f">>,
      <<"A", ".", "P", "d", "F">>,
      <<"p", "d", "f">>,
      <<"P", "P", "T", "X">>,
      <<"d", ".", "p", "p", "t", "x">>,
      <<"a", ".", "t", "x", "t">>,
      <<"a", ".", "p", "d", "f", ".", "t", "x", "t">>,
      <<"p", "d", "f", ".">>,
      <<"t", ".", "x", ".", "P", "P", "T", "X">>,
      <<>> }

Uploads == [filename : Filenames, content : Contents]

\* datetime.utcnow().isoformat() at the time of the call
Times == {<<"T", "1">>, <<"T", "2">>}

(***************************************************************************)
(* calculate_file_hash, extract_pdf, extract_pptx                          *)
(***************************************************************************)
HexChars == <<"0","1","2","3","4","5","6","7","8","9","a","b","c","d","e","f">>

\* the digest: a deterministic mixing of the bytes in order, which stands
\* for SHA-256 with a 16-bit state
RECURSIVE Digest(_, _)
Digest(h, bytes) ==
    IF bytes = <<>> THEN h
    ELSE Digest((h * 31 + Head(bytes) + 1) % 65536, Tail(bytes))

\* hexdigest(): lower-case hexadecimal, fixed width
HexDigest(h) ==
    <<HexChars[((h \div 4096) % 16) + 1], HexChars[((h \div 256) % 16) + 1],
      HexChars[((h \div 16) % 16) + 1], HexChars[(h % 16) + 1]>>

\* hashlib.sha256(content).hexdigest()
calculate_file_hash(content) == HexDigest(Digest(27, content))

\* str(x)
Str(v) ==
    CASE v.t = "str" -> v
      [] v.t = "int" -> JStr(IntToStr(v.n))
      [] v.t = "NoneType" -> JStr(<<"N", "o", "n", "e">>)

\* bool(x) is False
Falsy(v) ==
    \/ v.t = "NoneType"
    \/ v.t = "str" /\ v.chars = <<>>
    \/ v.t = "dict" /\ v.pairs = <<>>

\* d.get(key, default)
Get(d, key, default) == IF DictHas(d, key) THEN DictGet(d, key) ELSE default

\* the page block numbered by the 0-based page_num itself
PageBlockZeroBased(page_num, text) ==
    <<"\n", "-", "-", "-", " ", "P", "á", "g", "i", "n", "a", " ">>
        \o IntToStr(page_num) \o <<" ", "-", "-", "-", "\n">> \o text

\* f"\n--- Página {page_num + 1} ---\n{text}" for the 0-based page_num
PageBlock(page_num, text) ==
    <<"\n", "-", "-", "-", " ", "P", "á", "g", "i", "n", "a", " ">>
        \o IntToStr(page_num + 1) \o <<" ", "-", "-", "-", "\n">> \o text

\* the loop over enumerate(pdf_reader.pages) from the 0-based page_num on
RECURSIVE PdfLoop(_, _, _)
PdfLoop(pages, page_num, text_content) ==
    IF page_num >= Len(pages) THEN text_content
    ELSE PdfLoop(pages, page_num + 1,
                 text_content \o PageBlock(page_num, pages[page_num + 1]))

\* metadata["pdf_metadata"]: left {} unless pdf_reader.metadata is truthy
PdfMetadata(info) ==
    IF Falsy(info) THEN JDict(<<>>)
    ELSE JDict(<<
        <<"title", Get(info, "/Title", JStr(<<>>))>>,
        <<"author", Get(info, "/Author", JStr(<<>>))>>,
        <<"subject", Get(info, "/Subject", JStr(<<>>))>>,
        <<"creator", Get(info, "/Creator", JStr(<<>>))>>,
        <<"producer", Get(info, "/Producer", JStr(<<>>))>>,
        <<"creation_date", Str(Get(info, "/CreationDate", JStr(<<>>)))>>,
        <<"modification_date", Str(Get(info, "/ModDate", JStr(<<>>)))>> >>)

\* DocumentResponse(...) as the 200 response
DocumentResponse(filename, file_type, text_content, metadata, now, file_hash) ==
    [status |-> 200,
     body |-> [success |-> TRUE, filename |-> filename, file_type |-> file_type,
               text_content |-> text_content, metadata |-> metadata,
               extracted_at |-> now, file_hash |-> file_hash]]

\* extract_pdf with a hash of the bytes and the file name
ExtractPdfNameHash(file_content, filename, now) ==
    LET pdf_reader == PdfReader(file_content)
    IN  IF ~pdf_reader.ok THEN HTTPException(400, "malformed_pdf")
        ELSE DocumentResponse(
                 filename, "pdf",
                 Strip(PdfLoop(pdf_reader.pages, 0, <<>>)),
                 [num_pages |-> Len(pdf_reader.pages),
                  pdf_metadata |-> PdfMetadata(pdf_reader.metadata)],
                 now, calculate_file_hash(file_content \o <<Len(filename)>>))

\* extract_pdf(file_content, filename), called at time now
ExtractPdf(file_content, filename, now) ==
    LET pdf_reader == PdfReader(file_content)
    IN  IF ~pdf_reader.ok THEN HTTPException(400, "malformed_pdf")
        ELSE DocumentResponse(
                 filename, "pdf",
                 Strip(PdfLoop(pdf_reader.pages, 0, <<>>)),
                 [num_pages |-> Len(pdf_reader.pages),
                  pdf_metadata |-> PdfMetadata(pdf_reader.metadata)],
                 now, calculate_file_hash(file_content))

\* the loop over slide.shapes with the test hasattr(shape, "text") alone
RECURSIVE ShapeLoopAnyText(_, _)
ShapeLoopAnyText(shapes, slide_text) ==
    IF shapes = <<>> THEN slide_text
    ELSE ShapeLoopAnyText(Tail(shapes),
                          IF Head(shapes).has_text
                          THEN slide_text \o Head(shapes).text \o <<"\n">>
                          ELSE slide_text)

\* the loop over slide.shapes: hasattr(shape, "text") and shape.text
RECURSIVE ShapeLoop(_, _)
ShapeLoop(shapes, slide_text) ==
    IF shapes = <<>> THEN slide_text
    ELSE ShapeLoop(Tail(shapes),
                   IF Head(shapes).has_text /\ Head(shapes).text # <<>>
                   THEN slide_text \o Head(shapes).text \o <<"\n">>
                   ELSE slide_text)

\* f"\n--- Slide {slide_num} ---\n" for the 1-based slide_num
SlideHeader(slide_num) ==
    <<"\n", "-", "-", "-", " ", "S", "l", "i", "d", "e", " ">>
        \o IntToStr(slide_num) \o <<" ", "-", "-", "-", "\n">>

\* the loop over enumerate(presentation.slides, 1): [text_content, slide_count]
RECURSIVE SlideLoop(_, _, _)
SlideLoop(slides, slide_num, acc) ==
    IF slide_num > Len(slides) THEN acc
    ELSE SlideLoop(slides, slide_num + 1,
                   [text_content |-> acc.text_content
                        \o ShapeLoop(slides[slide_num], SlideHeader(slide_num)),
                    slide_count |-> acc.slide_count + 1])

\* x or ""
OrEmpty(v) == IF Falsy(v) THEN JStr(<<>>) ELSE v

\* x.isoformat() if x else ""
IsoOrEmpty(v) == IF Falsy(v) THEN JStr(<<>>) ELSE JStr(v.iso)

\* metadata["pptx_metadata"]
PptxMetadata(core_props) ==
    JDict(<<
        <<"title", OrEmpty(core_props.title)>>,
        <<"author", OrEmpty(core_props.author)>>,
        <<"subject", OrEmpty(core_props.subject)>>,
        <<"keywords", OrEmpty(core_props.keywords)>>,
        <<"comments", OrEmpty(core_props.comments)>>,
        <<"category", OrEmpty(core_props.category)>>,
        <<"created", IsoOrEmpty(core_props.created)>>,
        <<"modified", IsoOrEmpty(core_props.modified)>>,
        <<"last_modified_by", OrEmpty(core_props.last_modified_by)>> >>)

\* extract_pptx(file_content, filename), called at time now
ExtractPptx(file_content, filename, now) ==
    LET presentation == Presentation(file_content)
    IN  IF ~presentation.ok THEN HTTPException(400, "malformed_pptx")
        ELSE LET r == SlideLoop(presentation.slides, 1,
                                [text_content |-> <<>>, slide_count |-> 0])
             IN  DocumentResponse(
                     filename, "pptx", Strip(r.text_content),
                     [num_slides |-> r.slide_count,
                      slide_width |-> presentation.slide_width,
                      slide_height |-> presentation.slide_height,
                      pptx_metadata |-> PptxMetadata(presentation.core_properties)],
                     now, calculate_file_hash(file_content))

(***************************************************************************)
(* POST /extract: extract_document                                         *)
(***************************************************************************)
Pdf == <<"p", "d", "f">>

Pptx == <<"p", "p", "t", "x">>

\* the lower-cased text after the last '.', empty when there is no '.'
FileExtensionAfterDot(filename) ==
    IF \E k \in 1..Len(filename) : filename[k] = "."
    THEN LastField(Lower(filename), ".")
    ELSE <<>>

\* file.filename.lower().split('.')[-1]
FileExtension(filename) == LastField(Lower(filename), ".")

\* an emptiness test that no content meets
IsEmptyNever(file_content) == Len(file_content) < 0

\* len(file_content) == 0
IsEmpty(file_content) == Len(file_content) = 0

ExtractLocals == [file_extension |-> Unset, file_content |-> Unset]

\* the upload arrives
ReceiveUpload(pool) ==
    /\ pc = "idle"
    /\ \E u \in pool :
          req' = [kind |-> "extract", filename |-> u.filename,
                  content |-> u.content]
    /\ loc' = ExtractLocals
    /\ steps' = <<>>
    /\ resp' = NoResponse
    /\ pc' = "ex_type"
    /\ UNCHANGED kept

\* file_extension = ...; if file_extension not in ['pdf', 'pptx']: raise
ExCheckType ==
    /\ pc = "ex_type"
    /\ loc' = [loc EXCEPT !.file_extension = FileExtension(req.filename)]
    /\ IF loc'.file_extension \notin {Pdf, Pptx}
       THEN RaiseHTTP("check_type", 400, "unsupported_type")
       ELSE /\ steps' = Append(steps, "check_type")
            /\ pc' = "ex_read"
            /\ UNCHANGED <<req, resp, kept>>

\* file_content = await file.read(); if len(file_content) == 0: raise
ExRead ==
    /\ pc = "ex_read"
    /\ loc' = [loc EXCEPT !.file_content = req.content]
    /\ IF IsEmpty(loc'.file_content)
       THEN RaiseHTTP("check_empty", 400, "empty_file")
       ELSE /\ steps' = Append(steps, "check_empty")
            /\ pc' = "ex_dispatch"
            /\ UNCHANGED <<req, resp, kept>>

\* return extract_pdf(...) or return extract_pptx(...), by the extension
ExDispatch ==
    /\ pc = "ex_dispatch"
    /\ \E now \in Times :
          IF loc.file_extension = Pdf
          THEN /\ resp' = ExtractPdf(loc.file_content, req.filename, now)
               /\ steps' = Append(steps, "extract_pdf")
          ELSE /\ loc.file_extension = Pptx
               /\ resp' = ExtractPptx(loc.file_content, req.filename, now)
               /\ steps' = Append(steps, "extract_pptx")
    /\ pc' = "done"
    /\ UNCHANGED <<req, loc, kept>>

(***************************************************************************)
(* The server.  kept is a history variable: the program keeps nothing      *)
(* between requests, and kept stays empty in Spec.                         *)
(***************************************************************************)
Init ==
    /\ pc = "idle"
    /\ req = [kind |-> "none"]
    /\ loc = [x |-> 0]
    /\ steps = <<>>
    /\ resp = NoResponse
    /\ kept = [kind |-> "none"]

Next ==
    \/ ReceiveUpload(Uploads)
    \/ ExCheckType
    \/ ExRead
    \/ ExDispatch
    \/ ReceiveTransform(RawTexts)
    \/ TrLoads
    \/ TrCheckList
    \/ TrCheckFirst
    \/ TrSearch
    \/ TrLoadsInner
    \/ TrReturn
    \/ Finish

Spec == Init /\ [][Next]_vars

(***************************************************************************)
(* A session of requests observed from outside: one earlier successful     *)
(* /extract response is remembered (any one of them), with the kinds of    *)
(* requests that were served after it.                                     *)
(***************************************************************************)
SessionUploads ==
    [filename : { <<"a", ".", "p", "d", "f">>, <<"p", "d", "f">>,
                  <<"P", "P", "T", "X">>, <<"a", ".", "t", "x", "t">> },
     content : { <<>>, <<63, 2, 1>>, <<63, 2, 2>>, <<37, 0, 1, 2>>,
                 <<80, 1, 4>>, <<0, 0>> }]

SessionRawTexts ==
    { WrapList(FenceOpen \o ObjText \o Fence), WrapList(<<"x">>),
      WrapValue(<<"5">>) }

\* what the observer notes of a finished request
Outcome ==
    IF req.kind = "transform" THEN "transform"
    ELSE IF resp.status = 200 THEN "extracted" ELSE "rejected"

\* the response is sent and the observer remembers it
Remember ==
    /\ pc = "done"
    /\ req.kind = "extract"
    /\ resp.status = 200
    /\ kept' = [kind |-> "extract", content |-> req.content,
                filename |-> req.filename, file_type |-> resp.body.file_type,
                file_hash |-> resp.body.file_hash, since |-> {}]
    /\ pc' = "idle"
    /\ req' = [kind |-> "none"]
    /\ loc' = [x |-> 0]
    /\ steps' = <<>>
    /\ resp' = NoResponse

\* the response is sent and the observer notes that it came after the one
\* it remembers
Pass ==
    /\ pc = "done"
    /\ kept' = IF kept.kind = "none" THEN kept
               ELSE [kept EXCEPT !.since = @ \cup {Outcome}]
    /\ pc' = "idle"
    /\ req' = [kind |-> "none"]
    /\ loc' = [x |-> 0]
    /\ steps' = <<>>
    /\ resp' = NoResponse

NextSession ==
    \/ ReceiveUpload(SessionUploads)
    \/ ExCheckType
    \/ ExRead
    \/ ExDispatch
    \/ ReceiveTransform(SessionRawTexts)
    \/ TrLoads
    \/ TrCheckList
    \/ TrCheckFirst
    \/ TrSearch
    \/ TrLoadsInner
    \/ TrReturn
    \/ Remember
    \/ Pass

SpecSession == Init /\ [][NextSession]_vars

(***************************************************************************)
(* Properties.  The definitions below restate the requests' contents       *)
(* without the handlers' steps, and the properties compare the two.        *)
(***************************************************************************)
Least(S) == CHOOSE k \in S : \A m \in S : k <= m

TextName == <<"t", "e", "x", "t">>

\* checks 1 to 3 of the recovery: raw parses, to a non-empty list, whose
\* first item is an object with a key 'text'
Check1(raw) == JsonLoads(raw).ok

Check2(raw) ==
    LET v == JsonLoads(raw).val IN v.t = "list" /\ Len(v.items) > 0

Check3(raw) ==
    LET first == JsonLoads(raw).val.items[1]
    IN  first.t = "dict" /\ DictHas(first, TextName)

Envelope(raw) == Check1(raw) /\ Check2(raw) /\ Check3(raw)

\* the value of the first item's 'text'
TextOf(raw) == DictGet(JsonLoads(raw).val.items[1], TextName)

\* where an opening marker stands, and where a closing marker stands after
\* the opening marker at i
Openings(text) == {i \in 1..Len(text) : MatchAtNoCase(text, i, FenceOpen)}

ClosingsAfter(text, i) ==
    {j \in (i + Len(FenceOpen))..Len(text) : MatchAt(text, j, Fence)}

HasBlock(text) == \E i \in Openings(text) : ClosingsAfter(text, i) # {}

\* the first block: from the first opening marker to the first closing marker
\* after it, without the white space around the content
FirstOpening(text) == Least(Openings(text))

FirstClosing(text) == Least(ClosingsAfter(text, FirstOpening(text)))

FirstBlockContent(text) ==
    Strip(Slice(text, FirstOpening(text) + Len(FenceOpen),
                FirstClosing(text) - 1))

\* a later block whose content is valid JSON
LaterValidBlock(text) ==
    \E i \in Openings(text) :
        /\ i >= FirstClosing(text) + Len(Fence)
        /\ \E j \in ClosingsAfter(text, i) :
              JsonLoads(Strip(Slice(text, i + Len(FenceOpen), j - 1))).ok

\* check 4: a fenced block is found in the text
Check4(raw) == TextOf(raw).t = "str" /\ HasBlock(TextOf(raw).chars)

\* check 5: the captured content parses
Check5(raw) == JsonLoads(FirstBlockContent(TextOf(raw).chars)).ok

\* the first check that fails, 0 when none does
FirstFailing(raw) ==
    IF ~Check1(raw) THEN 1
    ELSE IF ~Check2(raw) THEN 2
    ELSE IF ~Check3(raw) THEN 3
    ELSE IF ~Check4(raw) THEN 4
    ELSE IF ~Check5(raw) THEN 5
    ELSE 0

TransformDone == pc = "done" /\ req.kind = "transform"

Returned == steps # <<>> /\ steps[Len(steps)] = "return"

FailureOrder(raw) ==
    LET f == FirstFailing(raw)
    IN  /\ Returned <=> f = 0
        /\ f \in {1, 5} => resp = HTTPException(400, "decode")
        /\ f \in {2, 3, 4} => resp = HTTPException(400, "structure")

\* C1: when a transform request is done, a value was returned exactly when
\* all five checks pass, and otherwise the error is the one of the first check
\* that fails: decode for checks 1 and 5, structure for checks 2, 3 and 4.
C1_FailureOrder == TransformDone => FailureOrder(req.raw_text)

\* the same for the requests whose 'text', if there is one, is a string
C1_FailureOrderOfStringText ==
    TransformDone
        /\ (Envelope(req.raw_text) => TextOf(req.raw_text).t = "str")
    => FailureOrder(req.raw_text)

\* C2: when the inner parse has succeeded, the response is a success whose
\* body is the parsed value, whatever its JSON type.
C2_AnyTypeReturned ==
    TransformDone /\ loc.final_json_data # Unset
    => resp.status = 200 /\ resp.body = loc.final_json_data

\* the same for the values the route's response model admits
C2_ObjectReturned ==
    TransformDone /\ loc.final_json_data # Unset
        /\ loc.final_json_data.t = "dict"
    => resp.status = 200 /\ resp.body = loc.final_json_data

\* C3: when the 'text' holds a fenced block, the captured string is the
\* content of the first block, and when that content is no JSON the response
\* is the decode error, also when a later block holds valid JSON.
C3_FirstBlockOnly ==
    TransformDone /\ Envelope(req.raw_text) /\ Check4(req.raw_text)
    => LET content == FirstBlockContent(TextOf(req.raw_text).chars)
       IN  /\ loc.json_string = JStr(content)
           /\ ~JsonLoads(content).ok => resp = HTTPException(400, "decode")
           /\ JsonLoads(content).ok
                 => loc.final_json_data = JsonLoads(content).val

C3_Witness ==
    /\ TransformDone /\ Envelope(req.raw_text) /\ Check4(req.raw_text)
    /\ ~Check5(req.raw_text)
    /\ LaterValidBlock(TextOf(req.raw_text).chars)
    /\ resp = HTTPException(400, "decode")

ExtractRequest == req.kind = "extract"

\* the name, lower-cased, is e or ends in '.' and e
HasExtension(name, e) ==
    /\ Len(name) >= Len(e)
    /\ Slice(Lower(name), Len(name) - Len(e) + 1, Len(name)) = e
    /\ Len(name) > Len(e) => name[Len(name) - Len(e)] = "."

Supported(name) == HasExtension(name, Pdf) \/ HasExtension(name, Pptx)

Extractors == {"extract_pdf", "extract_pptx"}

ExtractorCalled == \E k \in 1..Len(steps) : steps[k] \in Extractors

\* C4: an extractor is called only for a supported extension and non-empty
\* bytes, after the extension check and then the non-empty check; and a
\* request with an unsupported extension or empty bytes ends in a client
\* error without an extractor call.
C4_RejectBeforeParsing ==
    ExtractRequest =>
        /\ ExtractorCalled =>
              /\ Supported(req.filename)
              /\ req.content # <<>>
              /\ Len(steps) = 3
              /\ steps[1] = "check_type" /\ steps[2] = "check_empty"
              /\ steps[3] \in Extractors
        /\ pc = "done" /\ (~Supported(req.filename) \/ req.content = <<>>) =>
              /\ resp.status = 400
              /\ resp.category \in {"unsupported_type", "empty_file"}
              /\ ~ExtractorCalled

C4_Witness ==
    /\ ExtractRequest /\ pc = "done"
    /\ Supported(req.filename) /\ req.content = <<>>
    /\ resp = HTTPException(400, "empty_file")
    /\ ~ExtractorCalled

PdfDone ==
    /\ ExtractRequest /\ pc = "done" /\ resp.status = 200
    /\ resp.body.file_type = "pdf"

PptxDone ==
    /\ ExtractRequest /\ pc = "done" /\ resp.status = 200
    /\ resp.body.file_type = "pptx"

PageLine(n) ==
    <<"-", "-", "-", " ", "P", "a", "g", "e", " ">> \o IntToStr(n)
        \o <<" ", "-", "-", "-">>

PaginaLine(n) ==
    <<"-", "-", "-", " ", "P", "á", "g", "i", "n", "a", " ">> \o IntToStr(n)
        \o <<" ", "-", "-", "-">>

RECURSIVE PagesWithPage(_, _)
\* pages 1..n, each as a line break, `--- Page <n> ---`, a line break, the text
PagesWithPage(pages, n) ==
    IF n = 0 THEN <<>>
    ELSE PagesWithPage(pages, n - 1) \o <<"\n">> \o PageLine(n) \o <<"\n">>
             \o pages[n]

RECURSIVE PagesWithPagina(_, _)
\* the same with `--- Página <n> ---`
PagesWithPagina(pages, n) ==
    IF n = 0 THEN <<>>
    ELSE PagesWithPagina(pages, n - 1) \o <<"\n">> \o PaginaLine(n) \o <<"\n">>
             \o pages[n]

PagesOf(content) == PdfReader(content).pages

\* C5 as stated: the text is the trimmed sequence of `--- Page <n> ---`
\* lines, each followed by its page's text, and for the pages "Hello" and
\* "World" it is "--- Page 1 ---\nHello\n--- Page 2 ---\nWorld".
C5_PageSeparator ==
    PdfDone =>
        LET pages == PagesOf(req.content)
        IN  /\ resp.body.text_content
                   = Strip(PagesWithPage(pages, Len(pages)))
            /\ pages = <<Hello, World>> =>
                   resp.body.text_content
                       = PageLine(1) \o <<"\n">> \o Hello \o <<"\n">>
                             \o PageLine(2) \o <<"\n">> \o World

\* C5 as amended: the same with the separator line `--- Página <n> ---`.
C5_PaginaSeparator ==
    PdfDone =>
        LET pages == PagesOf(req.content)
        IN  /\ resp.body.text_content
                   = Strip(PagesWithPagina(pages, Len(pages)))
            /\ pages = <<Hello, World>> =>
                   resp.body.text_content
                       = <<"-", "-", "-", " ", "P", "á", "g", "i", "n", "a",
                           " ", "1", " ", "-", "-", "-", "\n",
                           "H", "e", "l", "l", "o", "\n",
                           "-", "-", "-", " ", "P", "á", "g", "i", "n", "a",
                           " ", "2", " ", "-", "-", "-", "\n",
                           "W", "o", "r", "l", "d">>

C5_Witness == PdfDone /\ PagesOf(req.content) = <<Hello, World>>

AllStrings(d) == \A k \in 1..Len(d.pairs) : d.pairs[k][2].t = "str"

\* C6: every field of pdf_metadata and of pptx_metadata in a successful
\* response is a string.
C6_MetadataStrings ==
    /\ PdfDone => AllStrings(resp.body.metadata.pdf_metadata)
    /\ PptxDone => AllStrings(resp.body.metadata.pptx_metadata)

\* the same for the decks alone
C6_PptxMetadataStrings ==
    PptxDone => AllStrings(resp.body.metadata.pptx_metadata)

SlidesOf(content) == Presentation(content).slides

\* no shape of any slide has text
NoTextShapes(slides) ==
    \A n \in 1..Len(slides) : \A k \in 1..Len(slides[n]) :
        ~(slides[n][k].has_text /\ slides[n][k].text # <<>>)

SlideLine(n) ==
    <<"-", "-", "-", " ", "S", "l", "i", "d", "e", " ">> \o IntToStr(n)
        \o <<" ", "-", "-", "-">>

RECURSIVE Lines(_)
\* the lines of a text: what str.split("\n") gives
Lines(s) ==
    LET At == {k \in 1..Len(s) : s[k] = "\n"}
    IN  IF At = {} THEN <<s>>
        ELSE <<Slice(s, 1, Least(At) - 1)>>
                 \o Lines(Slice(s, Least(At) + 1, Len(s)))

RECURSIVE JoinSlideLines(_, _)
\* the separator lines of slides 1..n with sep between consecutive ones
JoinSlideLines(n, sep) ==
    IF n = 0 THEN <<>>
    ELSE IF n = 1 THEN SlideLine(1)
    ELSE JoinSlideLines(n - 1, sep) \o sep \o SlideLine(n)

\* C7 as stated: for a deck without text in any shape, the lines of the text
\* are the separator lines `--- Slide <n> ---`, one per slide in order, and
\* nothing else.
C7_OnlySeparatorLines ==
    PptxDone /\ NoTextShapes(SlidesOf(req.content)) =>
        LET n == Len(SlidesOf(req.content))
        IN  IF n = 0 THEN resp.body.text_content = <<>>
            ELSE Lines(resp.body.text_content)
                     = [k \in 1..n |-> SlideLine(k)]

\* C7 as amended: the text is the separator lines, one per slide in order,
\* with one empty line between two consecutive ones, and nothing else.
C7_SeparatorsAndEmptyLines ==
    PptxDone /\ NoTextShapes(SlidesOf(req.content)) =>
        resp.body.text_content
            = JoinSlideLines(Len(SlidesOf(req.content)), <<"\n", "\n">>)

C7_Witness ==
    /\ PptxDone /\ NoTextShapes(SlidesOf(req.content))
    /\ Len(SlidesOf(req.content)) = 2
    /\ \E k \in 1..Len(SlidesOf(req.content)[2]) :
          SlidesOf(req.content)[2][k].has_text

SameBytesAgain ==
    /\ ExtractRequest /\ pc = "done" /\ resp.status = 200
    /\ kept.kind = "extract"
    /\ kept.content = req.content

\* C8: a successful response for the bytes of a remembered successful
\* response has the same file_hash, whatever the two file names and document
\* types and whatever was served in between.
C8_HashOfBytesOnly == SameBytesAgain => resp.body.file_hash = kept.file_hash

C8_Witness ==
    /\ SameBytesAgain
    /\ kept.filename # req.filename
    /\ kept.file_type # resp.body.file_type
    /\ {"rejected", "extracted", "transform"} \subseteq kept.since

\* C9: when the first item's 'text' is no string, the request ends at the
\* search with the server error.
C9_NonStringText ==
    TransformDone /\ Envelope(req.raw_text)
        /\ TextOf(req.raw_text).t # "str"
    => /\ resp = HTTPException(500, "unexpected")
       /\ steps = <<"loads", "check_list", "check_first", "search">>

C9_Witness ==
    /\ TransformDone /\ Envelope(req.raw_text)
    /\ TextOf(req.raw_text).t = "NoneType"
    /\ resp.status = 500

NoDot(name) == \A k \in 1..Len(name) : name[k] # "."

\* e is the text after the last '.' of name, the whole name when it has none
IsLastField(e, name) ==
    /\ NoDot(e)
    /\ Len(e) <= Len(name)
    /\ Slice(name, Len(name) - Len(e) + 1, Len(name)) = e
    /\ Len(e) < Len(name) => name[Len(name) - Len(e)] = "."

\* C10: the extension is the lower-cased text after the last '.', the whole
\* lower-cased name when it has no '.'; a non-empty upload named 'pdf' or
\* 'PPTX' reaches the matching extractor; an empty upload with an unsupported
\* extension gets the unsupported-type error.
C10_Extension ==
    ExtractRequest =>
        /\ loc.file_extension # Unset =>
              /\ IsLastField(loc.file_extension, Lower(req.filename))
              /\ NoDot(req.filename) => loc.file_extension = Lower(req.filename)
        /\ pc = "done" /\ req.content # <<>> /\ req.filename = <<"p", "d", "f">>
              => steps = <<"check_type", "check_empty", "extract_pdf">>
        /\ pc = "done" /\ req.content # <<>>
              /\ req.filename = <<"P", "P", "T", "X">>
              => steps = <<"check_type", "check_empty", "extract_pptx">>
        /\ pc = "done" /\ req.content = <<>> /\ ~Supported(req.filename)
              => resp = HTTPException(400, "unsupported_type")

C10_Witness ==
    /\ ExtractRequest /\ pc = "done"
    /\ req.filename = <<"P", "P", "T", "X">>
    /\ resp.status = 200
    /\ resp.body.file_type = "pptx"
====
